---- MODULE Spec2Model ----
(***************************************************************************)
(* A model of sqlarray (src/sqlarray/sqlarray.py): a SQLite3 file seen as  *)
(* an array of tables, each table an associative array of (key, value).    *)
(*                                                                         *)
(* The Python layer is translated statement by statement.  The SQL text    *)
(* it hands to sqlite3 is given the meaning the engine gives it: storage   *)
(* classes, column affinity, NULL comparison, PRIMARY KEY / rowid rules,   *)
(* GLOB matching, and the sqlite3 module's implicit transactions.          *)
(*                                                                         *)
(* Text is a sequence of one-character strings, so that substring and      *)
(* pattern matching are computed, not assumed.                             *)
(***************************************************************************)
EXTENDS Integers, Sequences, FiniteSets, Bags, TLC

VARIABLES
    files,          \* the file system: path -> committed database content
    opened,         \* a SQLArray (Store) object is alive
    filename,       \* SQLArray.filename (the resolved path)
    sql,            \* SQLArray.sql: the connection's view (with uncommitted changes)
    in_transaction, \* sqlite3.Connection.in_transaction of SQLArray.sql
    convert,        \* SQLArray.convert   ("raw" or "json.dumps")
    unconvert,      \* SQLArray.unconvert ("raw" or "json.loads")
    table,          \* the Table object the caller holds
    global_db,      \* whether the module global db is bound (only under __main__)
    result,         \* outcome of the last call
    wrote,          \* history: last value set per (file, table, stored key)
    deleted,        \* history: keys deleted through this Store and not set again
    created,        \* history: tables obtained per file, and whether that Store is gone
    cursor          \* the IterKey object the caller holds

vars == <<files, opened, filename, sql, in_transaction, convert, unconvert,
          table, global_db, result, wrote, deleted, created, cursor>>

----------------------------------------------------------------------------
(* Bounds of the model *)

\* most rows a table is let to grow to
MaxRows == 3
\* longest table name tried against the validator
MaxNameLen == 2
\* longest search string handed to search()
MaxSearchLen == 2
\* most tables a database is let to hold
MaxTables == 2
\* most keys one cursor is let to yield
MaxYield == 3

----------------------------------------------------------------------------
(* Python / SQLite values *)

NullV == [cls |-> "NULL", n |-> 0, s |-> <<>>]
IntV(i) == [cls |-> "INTEGER", n |-> i, s |-> <<>>]
RealV(i) == [cls |-> "REAL", n |-> i, s |-> <<>>]
TextV(str) == [cls |-> "TEXT", n |-> 0, s |-> str]
\* a Python dict, which sqlite3 cannot bind
DictV == [cls |-> "DICT", n |-> 0, s |-> <<>>]

DigitChars == <<"0", "1", "2", "3", "4", "5", "6", "7", "8", "9">>

IsDigit(c) == \E i \in 1..10 : DigitChars[i] = c

DigitOf(c) == (CHOOSE i \in 1..10 : DigitChars[i] = c) - 1

RECURSIVE IntToStr(_)
IntToStr(i) ==
    IF i < 10 THEN <<DigitChars[i + 1]>>
    ELSE IntToStr(i \div 10) \o <<DigitChars[(i % 10) + 1]>>

RECURSIVE StrToInt(_)
StrToInt(str) ==
    IF str = <<>> THEN 0
    ELSE StrToInt(SubSeq(str, 1, Len(str) - 1)) * 10 + DigitOf(str[Len(str)])

\* text the engine takes for a well-formed integer literal
LooksInteger(str) == str # <<>> /\ \A i \in 1..Len(str) : IsDigit(str[i])

\* Python's == between two values (1 == 1.0)
PyEq(a, b) ==
    \/ a = b
    \/ a.cls \in {"INTEGER", "REAL"} /\ b.cls \in {"INTEGER", "REAL"} /\ a.n = b.n

----------------------------------------------------------------------------
(* ValueCodec: SQLArray.raw and the json pair of the test *)

raw(string) == string

json_dumps(v) ==
    CASE v.cls = "NULL" -> TextV(<<"n", "u", "l", "l">>)
      [] v.cls = "INTEGER" -> TextV(IntToStr(v.n))
      [] v.cls = "REAL" -> TextV(IntToStr(v.n) \o <<".", "0">>)
      [] v.cls = "TEXT" -> TextV(<<"\"">> \o v.s \o <<"\"">>)
      [] OTHER -> TextV(<<"{", "}">>)

\* [status, value]: json.loads raises TypeError on a non-string and
\* JSONDecodeError (a ValueError) on text that is not JSON
json_loads(x) ==
    IF x.cls # "TEXT" THEN [status |-> "TypeError", value |-> NullV]
    ELSE IF x.s = <<"n", "u", "l", "l">> THEN [status |-> "ok", value |-> NullV]
    ELSE IF x.s = <<"{", "}">> THEN [status |-> "ok", value |-> DictV]
    ELSE IF LooksInteger(x.s) THEN [status |-> "ok", value |-> IntV(StrToInt(x.s))]
    ELSE IF Len(x.s) >= 2 /\ x.s[1] = "\"" /\ x.s[Len(x.s)] = "\""
              /\ \A i \in 2..(Len(x.s) - 1) : x.s[i] # "\""
         THEN [status |-> "ok", value |-> TextV(SubSeq(x.s, 2, Len(x.s) - 1))]
    ELSE [status |-> "ValueError", value |-> NullV]

ApplyConvert(f, v) == IF f = "json.dumps" THEN json_dumps(v) ELSE raw(v)

\* mutant: the stored value is returned as it is read
ApplyUnconvertSkipped(f, x) == [status |-> "ok", value |-> raw(x)]

ApplyUnconvert(f, x) ==
    IF f = "json.loads" THEN json_loads(x) ELSE [status |-> "ok", value |-> raw(x)]

----------------------------------------------------------------------------
(* The engine: what sqlite does with the statements of sqlarray.py *)

\* the affinity of a column declared with the type text of Table.__init__
\* ('' and BLOB give none; NULL after a column name is a constraint, not a type)
ColumnAffinity(decl) ==
    CASE decl = "INTEGER" -> "INTEGER"
      [] decl = "REAL" -> "REAL"
      [] decl = "TEXT" -> "TEXT"
      [] OTHER -> "NONE"

\* the value a column of affinity aff keeps (or compares with) for v
ApplyAffinity(aff, v) ==
    CASE aff = "INTEGER" ->
            IF v.cls = "TEXT" /\ LooksInteger(v.s) THEN IntV(StrToInt(v.s))
            ELSE IF v.cls = "REAL" THEN IntV(v.n)
            ELSE v
      [] aff = "REAL" ->
            IF v.cls = "TEXT" /\ LooksInteger(v.s) THEN RealV(StrToInt(v.s))
            ELSE IF v.cls = "INTEGER" THEN RealV(v.n)
            ELSE v
      [] aff = "TEXT" ->
            IF v.cls = "INTEGER" THEN TextV(IntToStr(v.n))
            ELSE IF v.cls = "REAL" THEN TextV(IntToStr(v.n) \o <<".", "0">>)
            ELSE v
      [] OTHER -> v

\* a database: a set of tables [name, ktype, vtype, rows], one per name,
\* rows a bag of [key, value]
EmptyDB == {}

LowerCase == <<"a", "b", "c", "d", "e", "f", "g", "h", "i", "j", "k", "l", "m",
               "n", "o", "p", "q", "r", "s", "t", "u", "v", "w", "x", "y", "z">>
UpperCase == <<"A", "B", "C", "D", "E", "F", "G", "H", "I", "J", "K", "L", "M",
               "N", "O", "P", "Q", "R", "S", "T", "U", "V", "W", "X", "Y", "Z">>

\* LIKE and the names of tables fold the case of ASCII letters
Fold(c) ==
    IF \E i \in 1..Len(UpperCase) : UpperCase[i] = c
    THEN LowerCase[CHOOSE i \in 1..Len(UpperCase) : UpperCase[i] = c]
    ELSE c

\* a table name as the engine compares it
FoldName(name) == [i \in 1..Len(name) |-> Fold(name[i])]

NewTable(name, kt, vt) == [name |-> name, ktype |-> kt, vtype |-> vt, rows |-> EmptyBag]

\* mutant: CREATE TABLE without IF NOT EXISTS finding a table
HasTableNever(db, name) == FALSE

\* IF NOT EXISTS: a table called name is there
HasTable(db, name) == \E t \in db : FoldName(t.name) = FoldName(name)

TableOf(db, name) == CHOOSE t \in db : FoldName(t.name) = FoldName(name)

\* mutant: writing a table empties the others
PutTableClearing(db, t) ==
    {[u EXCEPT !.rows = EmptyBag] : u \in {x \in db : x.name # t.name}} \cup {t}

PutTable(db, t) == {u \in db : u.name # t.name} \cup {t}

TableNames(db) == {t.name : t \in db}

\* "key INTEGER PRIMARY KEY" makes key the rowid
IsRowid(t) == t.ktype = "INTEGER"

\* WHERE key=? : NULL equals nothing; the column's affinity is applied to the
\* bound parameter before the comparison
KeyMatches(t, stored, param) ==
    /\ param.cls # "NULL"
    /\ stored.cls # "NULL"
    /\ PyEq(stored, ApplyAffinity(ColumnAffinity(t.ktype), param))

RowsWithKey(t, param) == {r \in BagToSet(t.rows) : KeyMatches(t, r.key, param)}

BagFilter(b, Keep(_)) == [r \in {x \in DOMAIN b : Keep(x)} |-> b[r]]

MaxRowid(t) ==
    IF BagToSet(t.rows) = {} THEN 0
    ELSE CHOOSE m \in {r.key.n : r \in BagToSet(t.rows)} :
            \A r \in BagToSet(t.rows) : r.key.n <= m

\* the key REPLACE stores: a NULL rowid is allocated, another key takes the
\* column's affinity
StoredKey(t, key) ==
    IF IsRowid(t) /\ key.cls = "NULL" THEN IntV(MaxRowid(t) + 1)
    ELSE ApplyAffinity(ColumnAffinity(t.ktype), key)

\* a rowid column takes integers only ("datatype mismatch")
DatatypeMismatch(t, key) == IsRowid(t) /\ StoredKey(t, key).cls # "INTEGER"

\* sqlite3 binds None, int, float, str and bytes only
Bindable(v) == v.cls \in {"NULL", "INTEGER", "REAL", "TEXT"}

\* mutant: INSERT with no conflict clause acting on the key
InsertInto(t, key, v) ==
    [t EXCEPT !.rows = t.rows (+) SetToBag({[key |-> StoredKey(t, key),
                    value |-> ApplyAffinity(ColumnAffinity(t.vtype), v)]})]

\* REPLACE INTO t (key,value) VALUES (?,?): rows in conflict on the primary
\* key are deleted, then the row is inserted.  NULL keys never conflict.
ReplaceInto(t, key, v) ==
    LET k == StoredKey(t, key)
        kept == BagFilter(t.rows, LAMBDA r : ~KeyMatches(t, r.key, k))
    IN [t EXCEPT !.rows = kept (+) SetToBag({[key |-> k,
                    value |-> ApplyAffinity(ColumnAffinity(t.vtype), v)]})]

\* mutant: DELETE with no WHERE clause
DeleteAll(t, key) == [t EXCEPT !.rows = EmptyBag]

\* DELETE FROM t WHERE key=?
DeleteFrom(t, key) ==
    [t EXCEPT !.rows = BagFilter(t.rows, LAMBDA r : ~KeyMatches(t, r.key, key))]

----------------------------------------------------------------------------
(* Table names *)

Letters ==
    {"a", "b", "c", "d", "e", "f", "g", "h", "i", "j", "k", "l", "m",
     "n", "o", "p", "q", "r", "s", "t", "u", "v", "w", "x", "y", "z",
     "A", "B", "C", "D", "E", "F", "G", "H", "I", "J", "K", "L", "M",
     "N", "O", "P", "Q", "R", "S", "T", "U", "V", "W", "X", "Y", "Z"}

\* the character class [a-zA-Z_]
NameChars == Letters \cup {"_"}

\* re.compile("[a-zA-Z_]+").search(name): some run of the class occurs
\* anywhere in the name
allowedtablename(name) == \E i \in 1..Len(name) : name[i] \in NameChars

RECURSIVE StripSpaces(_)
StripSpaces(name) ==
    IF name = <<>> THEN name
    ELSE IF Head(name) = " " THEN StripSpaces(Tail(name))
    ELSE IF name[Len(name)] = " " THEN StripSpaces(SubSeq(name, 1, Len(name) - 1))
    ELSE name

\* the table the engine reads in "CREATE TABLE IF NOT EXISTS {name} (" and
\* "FROM {name}": the text between blanks when it is one identifier token,
\* <<>> for a syntax error.  (No name built here spells an SQL keyword.)
SqlIdentifier(name) ==
    LET core == StripSpaces(name)
    IN IF /\ core # <<>>
          /\ core[1] \in NameChars
          /\ \A i \in 1..Len(core) : core[i] \in NameChars \/ IsDigit(core[i])
       THEN core
       ELSE <<>>

----------------------------------------------------------------------------
(* GLOB, as sqlite's patternCompare runs it: * ? [set] [^set] [a-z], and no
   escape character *)

AsciiOrder ==
    <<" ", "!", "\"", "#", "$", "%", "&", "'", "(", ")", "*", "+", ",", "-",
      ".", "/", "0", "1", "2", "3", "4", "5", "6", "7", "8", "9", ":", ";",
      "<", "=", ">", "?", "@", "A", "B", "C", "D", "E", "F", "G", "H", "I",
      "J", "K", "L", "M", "N", "O", "P", "Q", "R", "S", "T", "U", "V", "W",
      "X", "Y", "Z", "[", "]", "^", "_", "a", "b", "c", "d", "e",
      "f", "g", "h", "i", "j", "k", "l", "m", "n", "o", "p", "q", "r", "s",
      "t", "u", "v", "w", "x", "y", "z", "{", "|", "}", "~">>

\* the rank of c in ASCII order (ranges compare ranks only)
CharCode(c) == CHOOSE i \in 1..Len(AsciiOrder) : AsciiOrder[i] = c

\* the members of a [set], read from pat[i] on for the character c:
\* [closed, next, seen]
RECURSIVE GlobSet(_, _, _, _, _)
GlobSet(pat, i, c, prior, seen) ==
    IF i > Len(pat) THEN [closed |-> FALSE, next |-> i, seen |-> seen]
    ELSE IF pat[i] = "]" THEN [closed |-> TRUE, next |-> i + 1, seen |-> seen]
    ELSE IF pat[i] = "-" /\ i + 1 <= Len(pat) /\ pat[i + 1] # "]" /\ prior # ""
         THEN GlobSet(pat, i + 2, c, "",
                      seen \/ (CharCode(prior) <= CharCode(c)
                               /\ CharCode(c) <= CharCode(pat[i + 1])))
    ELSE GlobSet(pat, i + 1, c, pat[i], seen \/ c = pat[i])

\* pat[1] = "[": does the set match c, and where does the pattern go on
GlobBracket(pat, c) ==
    LET invert == Len(pat) >= 2 /\ pat[2] = "^"
        i == IF invert THEN 3 ELSE 2
        first == i <= Len(pat) /\ pat[i] = "]"
        r == IF first THEN GlobSet(pat, i + 1, c, "", c = "]")
             ELSE GlobSet(pat, i, c, "", FALSE)
    IN [ok |-> r.closed /\ (r.seen # invert), next |-> r.next]

RECURSIVE GlobMatch(_, _)
GlobMatch(pat, str) ==
    IF pat = <<>> THEN str = <<>>
    ELSE IF Head(pat) = "*"
         THEN \E i \in 0..Len(str) : GlobMatch(Tail(pat), SubSeq(str, i + 1, Len(str)))
    ELSE IF str = <<>> THEN FALSE
    ELSE IF Head(pat) = "["
         THEN LET b == GlobBracket(pat, Head(str))
              IN b.ok /\ GlobMatch(SubSeq(pat, b.next, Len(pat)), Tail(str))
    ELSE (Head(pat) = "?" \/ Head(pat) = Head(str)) /\ GlobMatch(Tail(pat), Tail(str))

\* the text the engine matches a stored value as
AsText(v) ==
    CASE v.cls = "TEXT" -> v.s
      [] v.cls = "INTEGER" -> IntToStr(v.n)
      [] v.cls = "REAL" -> IntToStr(v.n) \o <<".", "0">>
      [] OTHER -> <<>>

\* value GLOB ? : NULL matches nothing
ValueGlob(v, pat) == v.cls # "NULL" /\ GlobMatch(pat, AsText(v))

\* mutant: value IS ?, under which NULL equals NULL
ValueIs(t, v, x) == v = ApplyAffinity(ColumnAffinity(t.vtype), x)

\* value == ? : NULL equals nothing; the column's affinity is applied to the
\* bound parameter
ValueEquals(t, v, x) ==
    /\ v.cls # "NULL"
    /\ x.cls # "NULL"
    /\ PyEq(v, ApplyAffinity(ColumnAffinity(t.vtype), x))

\* s occurs in str as a run of consecutive characters
Contains(str, s) ==
    \E i \in 0..(Len(str) - Len(s)) : SubSeq(str, i + 1, i + Len(s)) = s

----------------------------------------------------------------------------
(* TypeMapper: Table._sanitize_type.  A hint is [py, v]: the Python type of
   the object passed and its text ("type"/"int" is the class int, "int"/"5" the
   number 5, "str"/"TEXT" the string 'TEXT', "NoneType"/"" is None). *)

Hint(py, v) == [py |-> py, v |-> v]

NoHint == Hint("NoneType", "")

\* Python truthiness of a hint
Truthy(h) ==
    CASE h.py = "NoneType" -> FALSE
      [] h.py = "str" -> h.v # ""
      [] h.py = "int" -> h.v # "0"
      [] h.py = "bool" -> h.v = "True"
      [] h.py = "float" -> h.v # "0.0"
      [] h.py \in {"bytes", "bytearray"} -> h.v # ""
      [] OTHER -> TRUE

valid_types == {"NULL", "INTEGER", "REAL", "TEXT", "BLOB"}

\* [status, type]: type "" is None
sanitize_type(db_type) ==
    IF ~Truthy(db_type) THEN [status |-> "ok", type |-> ""]
    ELSE IF db_type.py = "str"
         THEN IF db_type.v \in valid_types
              THEN [status |-> "ok", type |-> db_type.v]
              ELSE [status |-> "ValueError", type |-> ""]
    ELSE IF (db_type.py = "type" /\ db_type.v = "int") \/ db_type.py \in {"int", "bool"}
         THEN [status |-> "ok", type |-> "INTEGER"]
    ELSE IF (db_type.py = "type" /\ db_type.v \in {"bytes", "bytearray"})
              \/ db_type.py \in {"bytes", "bytearray"}
         THEN [status |-> "ok", type |-> "BLOB"]
    ELSE IF (db_type.py = "type" /\ db_type.v = "float") \/ db_type.py = "float"
         THEN [status |-> "ok", type |-> "REAL"]
    ELSE [status |-> "ValueError", type |-> ""]

----------------------------------------------------------------------------
(* The file system and the connection *)

\* the suffix of SQLArray.__init__
Suffix == "_sa.sqlite"

isfile(p) == \E f \in files : f.path = p

FileDb(p) == (CHOOSE f \in files : f.path = p).db

WriteFile(fs, p, db) == {f \in fs : f.path # p} \cup {[path |-> p, db |-> db]}

\* mutant: the suffix is appended whether or not the file exists
ResolveWithSuffix(sqlfilename) == sqlfilename \o Suffix

\* the name SQLArray.__init__ settles on for sqlfilename
ResolvePath(sqlfilename) ==
    IF ~isfile(sqlfilename) THEN sqlfilename \o Suffix ELSE sqlfilename

\* mutant: the create flag is not looked at
MustExistNever(create, fn) == FALSE

\* "not create and not os.path.isfile(self.filename)"
MustExist(create, fn) == ~create /\ ~isfile(fn)

\* convert if convert else self.raw
OrRaw(f) == IF f # "None" THEN f ELSE "raw"

\* convert if convert else db.convert
OrDb(f, dbf) == IF f # "None" THEN f ELSE dbf

NoTable == [bound |-> FALSE, name |-> <<>>, convert |-> "raw", unconvert |-> "raw"]

\* no IterKey object yet.  head: <<>> or the one key read ahead; yielded, selected, clean and stopped
\* are history: the keys yielded so far, the keys of the rows the SELECT
\* selected when it was run, whether no write to the table followed, and
\* whether StopIteration was raised
NoCursor ==
    [made |-> FALSE, tname |-> <<>>, op |-> "", arg |-> NullV, head |-> <<>>,
     rest |-> EmptyBag, yielded |-> EmptyBag, selected |-> EmptyBag,
     clean |-> TRUE, stopped |-> FALSE]

\* the outcome of a call: the exception raised ("ok" for none), the
\* arguments, the path resolved, the value returned, the keys or tables yielded
Outcome(op, status) ==
    [op |-> op, status |-> status, sqlfilename |-> "", create |-> FALSE,
     path |-> "", name |-> <<>>, key_type |-> NoHint, value_type |-> NoHint,
     key |-> NullV, arg |-> NullV, value |-> NullV, keys |-> EmptyBag, names |-> {}]

\* the table a Table object's statements run on
Current == TableOf(sql, SqlIdentifier(table.name))

\* mutant: a row whose value is falsy is taken for no row ("if not row[0]")
rowWithValue(key) ==
    {r \in RowsWithKey(Current, key) :
        r.value \notin {NullV, IntV(0), TextV(<<>>)}}

\* Table.row
row(key) == RowsWithKey(Current, key)

\* Table.__len__ of the table called name, in the connection's view
LenOf(db, name) == BagCardinality(TableOf(db, name).rows)

Init ==
    /\ files = {}
    /\ opened = FALSE
    /\ filename = ""
    /\ sql = EmptyDB
    /\ in_transaction = FALSE
    /\ convert = "raw"
    /\ unconvert = "raw"
    /\ table = NoTable
    /\ global_db = FALSE
    /\ result = Outcome("init", "ok")
    /\ wrote = {}
    /\ deleted = {}
    /\ created = {}
    /\ cursor = NoCursor

----------------------------------------------------------------------------
(* SQLArray (the Store) *)

\* SQLArray.__init__, but for the module global db
SQLArrayInit(sqlfilename, create, conv, unconv) ==
    LET fn == ResolvePath(sqlfilename)
    IN /\ ~opened
       /\ IF MustExist(create, fn)
          THEN /\ result' = [Outcome("open", "FileNotFoundError")
                              EXCEPT !.sqlfilename = sqlfilename,
                                     !.create = create, !.path = fn]
               /\ UNCHANGED <<files, opened, filename, sql, in_transaction,
                              convert, unconvert, table, wrote, deleted, created,
                              cursor>>
          ELSE /\ files' = IF isfile(fn) THEN files ELSE WriteFile(files, fn, EmptyDB)
               /\ opened' = TRUE
               /\ filename' = fn
               /\ sql' = IF isfile(fn) THEN FileDb(fn) ELSE EmptyDB
               /\ in_transaction' = FALSE
               /\ convert' = OrRaw(conv)
               /\ unconvert' = OrRaw(unconv)
               /\ table' = NoTable
               /\ deleted' = {}
               /\ result' = [Outcome("open", "ok")
                              EXCEPT !.sqlfilename = sqlfilename,
                                     !.create = create, !.path = fn]
               /\ UNCHANGED <<wrote, created, cursor>>

\* a caller's SQLArray(sqlfilename, create, convert, unconvert)
Open(sqlfilename, create, conv, unconv) ==
    /\ SQLArrayInit(sqlfilename, create, conv, unconv)
    /\ UNCHANGED global_db

\* the script's "db = SQLArray(file, False)", which binds the module global
MainOpen(file) ==
    /\ SQLArrayInit(file, FALSE, "None", "None")
    /\ global_db' = (result'.status = "ok")

\* the Store is dropped (rebound, or the process ends): the connection is
\* closed and what it had not committed is rolled back
Drop ==
    /\ opened
    /\ opened' = FALSE
    /\ filename' = ""
    /\ sql' = EmptyDB
    /\ in_transaction' = FALSE
    /\ convert' = "raw"
    /\ unconvert' = "raw"
    /\ table' = NoTable
    /\ global_db' = FALSE
    /\ deleted' = {}
    /\ result' = Outcome("drop", "ok")
    /\ created' = {[c EXCEPT !.dropped = (c.dropped \/ c.file = filename)] : c \in created}
    /\ cursor' = NoCursor
    /\ UNCHANGED <<files, wrote>>

----------------------------------------------------------------------------
(* IterKey: the cursor of a SELECT key.  sqlite3 steps the statement once in
   execute and once more after every row fetched, so the row to yield next
   (head) is read ahead; when the step finds no row the statement is over and
   the cursor yields nothing from then on.  rest holds the keys of the rows
   the scan has still ahead of it.  Which rows that are written while the
   statement is running lie ahead of the scan depends on the order the engine
   scans in, so either outcome is allowed. *)

\* str LIKE pat ESCAPE '\'
RECURSIVE LikeMatch(_, _)
LikeMatch(pat, str) ==
    IF pat = <<>> THEN str = <<>>
    ELSE IF Head(pat) = "%"
         THEN \E i \in 0..Len(str) : LikeMatch(Tail(pat), SubSeq(str, i + 1, Len(str)))
    ELSE IF Head(pat) = "\\"
         THEN /\ Len(pat) >= 2
              /\ str # <<>>
              /\ Fold(Head(str)) = Fold(pat[2])
              /\ LikeMatch(Tail(Tail(pat)), Tail(str))
    ELSE IF str = <<>> THEN FALSE
    ELSE /\ Head(pat) = "_" \/ Fold(Head(pat)) = Fold(Head(str))
         /\ LikeMatch(Tail(pat), Tail(str))

\* WHERE value LIKE ? ESCAPE '\'
ValueLike(v, pat) == v.cls # "NULL" /\ LikeMatch(pat, AsText(v))

\* what the chain of str.replace calls in Table.search evaluates to
RECURSIVE GlobEscape(_)
GlobEscape(str) ==
    IF str = <<>> THEN <<>>
    ELSE (IF Head(str) \in {"*", "?", "[", "]"} THEN <<"\\", Head(str)>>
          ELSE <<Head(str)>>) \o GlobEscape(Tail(str))

\* the pattern Table.search hands to Table.glob: the escaped string is
\* computed and dropped (str.replace returns a new string), and search
\* itself is wrapped
SearchPattern(search) ==
    LET escaped == GlobEscape(search)
    IN <<"*">> \o search \o <<"*">>

\* the WHERE clause of the SELECT that op(arg) runs on t, for row r
Matches(op, arg, t, r) ==
    CASE op = "keys" -> TRUE
      [] op = "like" -> ValueLike(r.value, arg.s)
      [] op = "glob" -> ValueGlob(r.value, arg.s)
      [] op = "search" -> ValueGlob(r.value, SearchPattern(arg.s))
      [] op = "equal" -> ValueEquals(t, r.value, arg)

\* the statement of c is running on table t
Running(c, t) == c.made /\ c.tname = t.name /\ c.head # <<>>

\* mutant: a cursor whose statement is over runs it again on the next write
CursorsAfterSetRestarted(c, t, key, v) ==
    LET k == StoredKey(t, key)
    IN IF ~(c.made /\ c.tname = t.name) THEN {c}
       ELSE {[c EXCEPT !.clean = FALSE, !.head = <<k>>]}

\* the cursors c can be after REPLACE INTO t (key, v): the replaced row is
\* no longer ahead of the scan, the new row is ahead of it or behind it
CursorsAfterSet(c, t, key, v) ==
    LET k == StoredKey(t, key)
        new == [key |-> k, value |-> ApplyAffinity(ColumnAffinity(t.vtype), v)]
        replaced == \E r \in BagToSet(t.rows) : KeyMatches(t, r.key, k)
        rest1 == IF replaced /\ BagIn(k, c.rest) THEN c.rest (-) SetToBag({k})
                 ELSE c.rest
    IN IF ~(c.made /\ c.tname = t.name) THEN {c}
       ELSE IF ~Running(c, t) THEN {[c EXCEPT !.clean = FALSE]}
       ELSE {[c EXCEPT !.clean = FALSE, !.rest = rest1]}
            \cup (IF Matches(c.op, c.arg, t, new)
                  THEN {[c EXCEPT !.clean = FALSE, !.rest = rest1 (+) SetToBag({k})]}
                  ELSE {})

\* the cursor after DELETE FROM t WHERE key=?: the deleted rows are no longer
\* ahead of the scan
CursorAfterDelete(c, t, key) ==
    IF ~(c.made /\ c.tname = t.name) THEN c
    ELSE IF ~Running(c, t) THEN [c EXCEPT !.clean = FALSE]
    ELSE [c EXCEPT !.clean = FALSE,
                   !.rest = BagFilter(c.rest, LAMBDA k : ~KeyMatches(t, k, key))]

----------------------------------------------------------------------------
(* Table *)

\* Table.__init__
TableInit(name, key_type, value_type, conv, unconv) ==
    LET kt == sanitize_type(key_type)
        vt == sanitize_type(value_type)
        ident == SqlIdentifier(name)
        failed(status) ==
            /\ result' = [Outcome("table", status) EXCEPT
                            !.name = name, !.key_type = key_type,
                            !.value_type = value_type]
            /\ UNCHANGED <<files, sql, table, created>>
    IN /\ opened
       /\ IF ~allowedtablename(name) THEN failed("KeyError")
          ELSE IF kt.status # "ok" THEN failed(kt.status)
          ELSE IF vt.status # "ok" THEN failed(vt.status)
          ELSE IF ident = <<>> THEN failed("OperationalError")
          ELSE /\ sql' = IF HasTable(sql, ident) THEN sql
                         ELSE PutTable(sql, NewTable(ident, kt.type, vt.type))
               /\ Cardinality(sql') <= MaxTables
               /\ files' = IF in_transaction THEN files
                           ELSE WriteFile(files, filename, sql')
               /\ table' = [bound |-> TRUE, name |-> name,
                            convert |-> OrDb(conv, convert),
                            unconvert |-> OrDb(unconv, unconvert)]
               /\ result' = [Outcome("table", "ok") EXCEPT
                               !.name = name, !.key_type = key_type,
                               !.value_type = value_type]
               /\ created' = created \cup
                     {[file |-> filename, name |-> TableOf(sql', ident).name,
                       dropped |-> FALSE]}
       /\ UNCHANGED <<opened, filename, in_transaction, convert, unconvert,
                      global_db, wrote, deleted, cursor>>

\* SQLArray.__getitem__
GetTable(tablename) == TableInit(tablename, NoHint, NoHint, "None", "None")

\* Table.__getitem__
GetItem(key) ==
    LET r == row(key)
        u == ApplyUnconvert(table.unconvert, (CHOOSE x \in r : TRUE).value)
    IN /\ table.bound
       /\ result' = IF r = {}
                    THEN [Outcome("get", "KeyError") EXCEPT !.key = key]
                    ELSE [Outcome("get", u.status) EXCEPT !.key = key, !.value = u.value]
       /\ UNCHANGED <<files, opened, filename, sql, in_transaction, convert,
                      unconvert, table, global_db, wrote, deleted, created, cursor>>

\* Table.__setitem__
SetItem(key, value) ==
    LET v == ApplyConvert(table.convert, value)
        t == Current
        t2 == ReplaceInto(t, key, v)
        sk == StoredKey(t, key)
        failed(status) ==
            /\ result' = [Outcome("set", status) EXCEPT !.key = key, !.arg = value]
            /\ in_transaction' = TRUE
            /\ UNCHANGED <<files, sql, wrote, deleted, cursor>>
    IN /\ table.bound
       /\ IF ~Bindable(key) \/ ~Bindable(v) THEN failed("ProgrammingError")
          ELSE IF DatatypeMismatch(t, key) THEN failed("IntegrityError")
          ELSE /\ BagCardinality(t2.rows) <= MaxRows
               /\ sql' = PutTable(sql, t2)
               /\ files' = WriteFile(files, filename, sql')
               /\ in_transaction' = FALSE
               /\ result' = [Outcome("set", "ok") EXCEPT !.key = key, !.arg = value]
               /\ wrote' = {w \in wrote :
                               ~(/\ w.file = filename
                                 /\ w.tname = t.name
                                 /\ (w.key = key \/ KeyMatches(t, w.skey, sk)))}
                           \cup {[file |-> filename, tname |-> t.name, key |-> key,
                                  skey |-> sk, v |-> value,
                                  convert |-> table.convert,
                                  unconvert |-> table.unconvert]}
               /\ deleted' = {d \in deleted :
                                 ~(d.tname = t.name /\ RowsWithKey(t2, d.key) # {})}
               /\ cursor' \in CursorsAfterSet(cursor, t, key, v)
       /\ UNCHANGED <<opened, filename, convert, unconvert, table, global_db, created>>

\* mutant: the DELETE is committed as the REPLACE of __setitem__ is
DeleteCommitted(fs, db) == WriteFile(fs, filename, db)

\* the files after the DELETE of __delitem__, which no commit follows
DeleteUncommitted(fs, db) == fs

\* Table.__delitem__
DelItem(key) ==
    LET t == Current
    IN /\ table.bound
       /\ IF row(key) = {}
          THEN /\ result' = [Outcome("del", "KeyError") EXCEPT !.key = key]
               /\ UNCHANGED <<files, sql, in_transaction, wrote, deleted, cursor>>
          ELSE /\ sql' = PutTable(sql, DeleteFrom(t, key))
               /\ files' = DeleteUncommitted(files, sql')
               /\ in_transaction' = TRUE
               /\ result' = [Outcome("del", "ok") EXCEPT !.key = key]
               /\ wrote' = {w \in wrote :
                               ~(/\ w.file = filename
                                 /\ w.tname = t.name
                                 /\ (w.key = key \/ KeyMatches(t, w.skey, key)))}
               /\ deleted' = deleted \cup {[tname |-> t.name, key |-> key]}
               /\ cursor' = CursorAfterDelete(cursor, t, key)
       /\ UNCHANGED <<opened, filename, convert, unconvert, table, global_db,
                      created>>

\* SELECT key FROM t WHERE ..., read to the end: the keys of the rows that
\* satisfy Where, each as often as it has such rows
SelectKeys(t, Where(_)) == BagOfAll(LAMBDA r : r.key, BagFilter(t.rows, Where))

\* mutant: SELECT DISTINCT key
AllKeysDistinct(t) == SetToBag({r.key : r \in BagToSet(t.rows)})

\* SELECT key FROM t, read to the end
AllKeys(t) == SelectKeys(t, LAMBDA r : TRUE)

\* Table.list: Table.__iter__ read to the end by the list comprehension
List ==
    /\ table.bound
    /\ result' = [Outcome("list", "ok") EXCEPT !.keys = AllKeys(Current)]
    /\ UNCHANGED <<files, opened, filename, sql, in_transaction, convert,
                   unconvert, table, global_db, wrote, deleted, created, cursor>>

\* Table.glob, its cursor read to the end
Glob(search, op) ==
    /\ table.bound
    /\ result' = [Outcome(op, "ok") EXCEPT
                    !.arg = TextV(search),
                    !.keys = SelectKeys(Current, LAMBDA r : ValueGlob(r.value, search))]
    /\ UNCHANGED <<files, opened, filename, sql, in_transaction, convert,
                   unconvert, table, global_db, wrote, deleted, created, cursor>>

\* Table.search, its cursor read to the end
Search(search) ==
    /\ table.bound
    /\ result' = [Outcome("search", "ok") EXCEPT
                    !.arg = TextV(search),
                    !.keys = SelectKeys(Current,
                                LAMBDA r : ValueGlob(r.value, SearchPattern(search)))]
    /\ UNCHANGED <<files, opened, filename, sql, in_transaction, convert,
                   unconvert, table, global_db, wrote, deleted, created, cursor>>

\* Table.equal, its cursor read to the end
Equal(search) ==
    /\ table.bound
    /\ result' = [Outcome("equal", "ok") EXCEPT
                    !.arg = search,
                    !.keys = SelectKeys(Current,
                                LAMBDA r : ValueEquals(Current, r.value, search))]
    /\ UNCHANGED <<files, opened, filename, sql, in_transaction, convert,
                   unconvert, table, global_db, wrote, deleted, created, cursor>>

\* Table.__iter__ (op "keys"), Table.like, Table.glob, Table.search and
\* Table.equal: the SELECT is run and stepped once, and IterKey wraps it
MakeCursor(op, arg) ==
    LET t == Current
        keys == SelectKeys(t, LAMBDA r : Matches(op, arg, t, r))
        made == [NoCursor EXCEPT !.made = TRUE, !.tname = t.name, !.op = op,
                                 !.arg = arg, !.selected = keys]
    IN /\ table.bound
       /\ IF keys = EmptyBag
          THEN cursor' = made
          ELSE \E k \in BagToSet(keys) :
                  cursor' = [made EXCEPT !.head = <<k>>,
                                         !.rest = keys (-) SetToBag({k})]
       /\ result' = [Outcome("cursor", "ok") EXCEPT !.arg = arg]
       /\ UNCHANGED <<files, opened, filename, sql, in_transaction, convert,
                      unconvert, table, global_db, wrote, deleted, created>>

\* IterKey.__next__: the row read ahead is yielded and the statement is
\* stepped once more; with no row read ahead StopIteration is raised
CursorNext ==
    /\ cursor.made
    /\ IF cursor.head = <<>>
       THEN /\ result' = Outcome("next", "StopIteration")
            /\ cursor' = [cursor EXCEPT !.stopped = TRUE]
       ELSE /\ BagCardinality(cursor.yielded) < MaxYield
            /\ result' = [Outcome("next", "ok") EXCEPT !.value = cursor.head[1]]
            /\ IF cursor.rest = EmptyBag
               THEN cursor' = [cursor EXCEPT
                                 !.head = <<>>,
                                 !.yielded = @ (+) SetToBag({cursor.head[1]})]
               ELSE \E k \in BagToSet(cursor.rest) :
                       cursor' = [cursor EXCEPT
                                    !.head = <<k>>,
                                    !.rest = @ (-) SetToBag({k}),
                                    !.yielded = @ (+) SetToBag({cursor.head[1]})]
    /\ UNCHANGED <<files, opened, filename, sql, in_transaction, convert,
                   unconvert, table, global_db, wrote, deleted, created>>

\* "for table in db": SQLArray.__iter__ and IterTables.__next__ to the end.
\* __next__ builds Table(db, tablename) with db a free name, looked up in
\* the module's globals: bound by the script under __main__, unbound for a
\* caller that imports the module.
IterTables ==
    LET names == TableNames(sql)
    IN /\ opened
       /\ IF names = {}
          THEN /\ result' = Outcome("tables", "ok")
               /\ UNCHANGED table
          ELSE IF ~global_db
          THEN /\ result' = Outcome("tables", "NameError")
               /\ UNCHANGED table
          ELSE /\ result' = [Outcome("tables", "ok") EXCEPT !.names = names]
               /\ \E last \in names :
                    table' = [bound |-> TRUE, name |-> last,
                              convert |-> convert, unconvert |-> unconvert]
       /\ UNCHANGED <<files, opened, filename, sql, in_transaction, convert,
                      unconvert, global_db, wrote, deleted, created, cursor>>

----------------------------------------------------------------------------
(* Spec: one file, one table with or without an integer key, the default
   codec, every kind of key *)

Paths == {"db"}
Names == {<<"t">>}
KeyHints == {NoHint, Hint("type", "int")}
Keys == {NullV, IntV(1), TextV(<<"1">>)}
Values == {NullV, TextV(<<>>), IntV(1)}

Next ==
    \/ \E p \in Paths, create \in BOOLEAN : Open(p, create, "None", "None")
    \/ Drop
    \/ \E n \in Names : GetTable(n)
    \/ \E n \in Names, kt \in KeyHints : TableInit(n, kt, NoHint, "None", "None")
    \/ \E k \in Keys, v \in Values : SetItem(k, v)
    \/ \E k \in Keys : GetItem(k)
    \/ \E k \in Keys : DelItem(k)

Spec == Init /\ [][Next]_vars

----------------------------------------------------------------------------
(* SpecCodec: the codecs of the Store and of the Table, over a value column
   with and without a type *)

Codecs == {<<"None", "None">>, <<"json.dumps", "json.loads">>}
ValueHints == {NoHint, Hint("type", "int")}
CodecKeys == {NullV, IntV(1)}
CodecValues == {IntV(1), TextV(<<"1">>), DictV}

NextCodec ==
    \/ \E p \in Paths, c \in Codecs : Open(p, TRUE, c[1], c[2])
    \/ Drop
    \/ \E n \in Names : GetTable(n)
    \/ \E n \in Names, vt \in ValueHints, c \in Codecs :
            TableInit(n, NoHint, vt, c[1], c[2])
    \/ \E k \in CodecKeys, v \in CodecValues : SetItem(k, v)
    \/ \E k \in CodecKeys : GetItem(k)
    \/ \E k \in CodecKeys : DelItem(k)

SpecCodec == Init /\ [][NextCodec]_vars

----------------------------------------------------------------------------
(* SpecName: table names of every spelling over a letter, a digit and a
   semicolon, tried through Store indexing and Table construction *)

NameAlphabet == {"a", "1", ";"}

SeqsUpTo(alphabet, n) == UNION {[1..k -> alphabet] : k \in 0..n}

TriedNames == SeqsUpTo(NameAlphabet, MaxNameLen)

NextName ==
    \/ \E p \in Paths : Open(p, TRUE, "None", "None")
    \/ Drop
    \/ \E n \in TriedNames : GetTable(n)
    \/ \E n \in TriedNames, kt \in KeyHints : TableInit(n, kt, NoHint, "None", "None")

SpecName == Init /\ [][NextName]_vars

----------------------------------------------------------------------------
(* SpecSearch: search over stored text with and without glob characters *)

SearchAlphabet == {"a", "b", "*", "["}
SearchStrings == SeqsUpTo(SearchAlphabet, MaxSearchLen)
SearchKeys == {IntV(1), IntV(2)}
SearchValues == {NullV, TextV(<<"a", "b">>), TextV(<<"a", "*", "b">>), TextV(<<"[">>)}

NextSearch ==
    \/ \E p \in Paths : Open(p, TRUE, "None", "None")
    \/ Drop
    \/ \E n \in Names : GetTable(n)
    \/ \E k \in SearchKeys, v \in SearchValues : SetItem(k, v)
    \/ \E s \in SearchStrings : Search(s)

SpecSearch == Init /\ [][NextSearch]_vars

----------------------------------------------------------------------------
(* SpecEqual: equal over stored numbers, text and nulls, on a value column
   with and without a type, through either codec *)

EqualValues == {NullV, IntV(1), TextV(<<"1">>)}
EqualArgs == EqualValues \cup {TextV(<<"\"", "1", "\"">>)}

NextEqual ==
    \/ \E p \in Paths : Open(p, TRUE, "None", "None")
    \/ Drop
    \/ \E n \in Names, vt \in ValueHints, c \in Codecs :
            TableInit(n, NoHint, vt, c[1], c[2])
    \/ \E k \in SearchKeys, v \in EqualValues : SetItem(k, v)
    \/ \E x \in EqualArgs : Equal(x)

SpecEqual == Init /\ [][NextEqual]_vars

----------------------------------------------------------------------------
(* SpecTables: two tables, iterated by a caller and by the script *)

TwoNames == {<<"t">>, <<"u">>}

NextTables ==
    \/ \E p \in Paths : Open(p, TRUE, "None", "None")
    \/ \E p \in Paths : MainOpen(p)
    \/ Drop
    \/ \E n \in TwoNames : GetTable(n)
    \/ \E n \in TwoNames, kt \in KeyHints : TableInit(n, kt, NoHint, "None", "None")
    \/ \E v \in {NullV, IntV(1)} : SetItem(IntV(1), v)
    \/ GetItem(IntV(1))
    \/ DelItem(IntV(1))
    \/ IterTables

SpecTables == Init /\ [][NextTables]_vars

----------------------------------------------------------------------------
(* SpecOpen: a logical name and the name its file gets, opened in any order *)

OpenPaths == {"db", "db" \o Suffix}

NextOpen ==
    \/ \E p \in OpenPaths, create \in BOOLEAN : Open(p, create, "None", "None")
    \/ Drop
    \/ \E n \in Names : GetTable(n)
    \/ \E v \in {NullV, IntV(1)} : SetItem(IntV(1), v)
    \/ GetItem(IntV(1))
    \/ DelItem(IntV(1))

SpecOpen == Init /\ [][NextOpen]_vars

----------------------------------------------------------------------------
(* SpecTypes: a table made, and asked for again, with every kind of type
   hint for its key and its value column, with and without a row in it *)

TypeHints ==
    {NoHint,
     Hint("str", "NULL"), Hint("str", "INTEGER"), Hint("str", "TEXT"),
     Hint("str", "VARCHAR"), Hint("str", ""),
     Hint("type", "int"), Hint("int", "5"), Hint("int", "0"),
     Hint("type", "float"), Hint("float", "1.5"), Hint("float", "0.0"),
     Hint("type", "bytes"), Hint("type", "bytearray"),
     Hint("bytes", "ab"), Hint("bytes", ""),
     Hint("type", "str"), Hint("type", "dict")}

NextTypes ==
    \/ \E p \in Paths : Open(p, TRUE, "None", "None")
    \/ Drop
    \/ \E n \in Names, kt \in TypeHints : TableInit(n, kt, NoHint, "None", "None")
    \/ \E n \in Names, vt \in TypeHints : TableInit(n, NoHint, vt, "None", "None")
    \/ \E n \in Names, t \in TypeHints : TableInit(n, t, t, "None", "None")
    \/ \E n \in Names : GetTable(n)
    \/ \E v \in {IntV(1), TextV(<<"1">>)} : SetItem(IntV(1), v)
    \/ DelItem(IntV(1))

SpecTypes == Init /\ [][NextTypes]_vars

----------------------------------------------------------------------------
(* SpecList: the words table of the test, with and without an integer key,
   set, overwritten, deleted and listed *)

the == TextV(<<"t", "h", "e">>)
quick == TextV(<<"q", "u", "i", "c", "k">>)
fox == TextV(<<"f", "o", "x">>)

ListKeys == {NullV, IntV(0), IntV(1), IntV(2)}
ListPairs ==
    {<<IntV(0), the>>, <<IntV(1), quick>>, <<IntV(2), fox>>,
     <<IntV(1), fox>>, <<NullV, the>>}

NextList ==
    \/ \E p \in Paths : Open(p, TRUE, "None", "None")
    \/ Drop
    \/ \E n \in Names, kt \in KeyHints : TableInit(n, kt, NoHint, "None", "None")
    \/ \E kv \in ListPairs : SetItem(kv[1], kv[2])
    \/ \E k \in ListKeys : DelItem(k)
    \/ GetItem(IntV(1))
    \/ List

SpecList == Init /\ [][NextList]_vars

----------------------------------------------------------------------------
(* SpecCursor: cursors of every kind over a table of two keys, with or
   without an integer key, stepped one key at a time with sets and deletes
   in between *)

CursorPairs ==
    {<<IntV(1), TextV(<<"a">>)>>, <<IntV(2), TextV(<<"a">>)>>,
     <<IntV(2), TextV(<<"b">>)>>}
CursorOps ==
    {<<"keys", NullV>>, <<"like", TextV(<<"A">>)>>, <<"glob", TextV(<<"a">>)>>,
     <<"search", TextV(<<"a">>)>>, <<"equal", TextV(<<"a">>)>>}

NextCursor ==
    \/ \E p \in Paths : Open(p, TRUE, "None", "None")
    \/ \E n \in Names, kt \in KeyHints : TableInit(n, kt, NoHint, "None", "None")
    \/ \E kv \in CursorPairs : SetItem(kv[1], kv[2])
    \/ DelItem(IntV(1))
    \/ \E c \in CursorOps : MakeCursor(c[1], c[2])
    \/ CursorNext

SpecCursor == Init /\ [][NextCursor]_vars

----------------------------------------------------------------------------
(* SpecIsolation: handles obtained by names that differ in letter case, in a
   trailing blank or altogether, written through with sets and deletes that
   succeed and that fail *)

IsoNames == {<<"t">>, <<"T">>, <<"t", " ">>, <<"u">>}
IsoValues == {NullV, IntV(1), DictV}

NextIsolation ==
    \/ \E p \in Paths : Open(p, TRUE, "None", "None")
    \/ Drop
    \/ \E n \in IsoNames : GetTable(n)
    \/ \E v \in IsoValues : SetItem(IntV(1), v)
    \/ GetItem(IntV(1))
    \/ DelItem(IntV(1))

SpecIsolation == Init /\ [][NextIsolation]_vars

----------------------------------------------------------------------------
(* Properties *)

\* what a second connection on the Store's file reads
CommittedDb == FileDb(filename)

\* the table of the Table object, as the Store sees it
TName == SqlIdentifier(table.name)

\* a row of t stored under key k (k as the key column keeps it)
HasRow(t, k) ==
    \E r \in BagToSet(t.rows) :
        r.key = IF k.cls = "NULL" THEN k ELSE ApplyAffinity(ColumnAffinity(t.ktype), k)

\* the last call was a get of the key that w recorded the set of, through a
\* Table on the same file and table with the same codec
Watched(w) ==
    /\ table.bound
    /\ w.file = filename
    /\ w.tname = TName
    /\ w.key = result.key
    /\ w.convert = table.convert
    /\ w.unconvert = table.unconvert

\* the value column keeps the encoded form of w's value as it is
AffinityKeeps(w) ==
    LET enc == ApplyConvert(w.convert, w.v)
    IN ApplyAffinity(ColumnAffinity(Current.vtype), enc) = enc

\* C1 as stated: set(k, v) then get(k), with no write to k in between,
\* returns a value equal to v, for every key and value and either codec,
\* also through a freshly opened Store.
C1_SetThenGet ==
    result.op = "get" =>
        \A w \in wrote : Watched(w) => result.status = "ok" /\ PyEq(result.value, w.v)

\* C1 amended: set(k, v) then get(k) returns a value equal to v when k is not
\* null and the value column's affinity keeps encode(v) as it is (always so
\* on a table created without a value type).
C1_SetThenGetKept ==
    result.op = "get" =>
        \A w \in wrote :
            Watched(w) /\ w.key.cls # "NULL" /\ AffinityKeeps(w)
                => result.status = "ok" /\ PyEq(result.value, w.v)

\* C1 witness: a get through the json codec returned the dict that was set
C1_Witness ==
    /\ result.op = "get"
    /\ result.status = "ok"
    /\ result.value = DictV
    /\ \E w \in wrote : Watched(w) /\ w.convert = "json.dumps" /\ w.v = DictV

\* a successful set has just returned
SetReturned == result'.op = "set" /\ result'.status = "ok" /\ table.bound

C9_EachSetItsOwnTransaction ==
    [][SetReturned =>
        /\ ~in_transaction'
        /\ CommittedDb' = sql'
        /\ HasTable(CommittedDb, TName)
        /\ CommittedDb' =
              PutTable(CommittedDb,
                       ReplaceInto(TableOf(CommittedDb, TName), result'.key,
                                   ApplyConvert(table.convert, result'.arg)))]_vars

\* C10 as stated: get and delete of a key with no row fail with KeyError and
\* change nothing; get and delete of a key with a row do not fail with KeyError.
C10_NotFoundIffNoRow ==
    [][(result'.op \in {"get", "del"} /\ table.bound) =>
        IF HasRow(Current, result'.key)
        THEN result'.status # "KeyError"
        ELSE /\ result'.status = "KeyError"
             /\ sql' = sql
             /\ files' = files
             /\ in_transaction' = in_transaction]_vars

\* C10 amended: the same for every key that is not null; a null key matches
\* no row, so get(None) and delete(None) fail with KeyError and change
\* nothing even when rows with a null key exist.
C10_NotFoundIffNoRowNonNull ==
    [][(result'.op \in {"get", "del"} /\ table.bound) =>
        IF result'.key.cls # "NULL" /\ HasRow(Current, result'.key)
        THEN result'.status # "KeyError"
        ELSE /\ result'.status = "KeyError"
             /\ sql' = sql
             /\ files' = files
             /\ in_transaction' = in_transaction]_vars

\* C10 witness: a get of a key whose row holds a null value has succeeded
\* while a delete is still uncommitted
C10_Witness ==
    /\ result.op = "get"
    /\ result.status = "ok"
    /\ result.value = NullV
    /\ in_transaction

\* the name has a character outside [a-zA-Z_]
HasOutsideChar(name) == \E i \in 1..Len(name) : name[i] \notin NameChars

\* C4 as stated: a table name with a character outside [a-zA-Z_] is turned
\* down with KeyError by Table construction and Store indexing, and the
\* tables of the database are as before.
C4_OutsideCharRejected ==
    [][(result'.op = "table" /\ HasOutsideChar(result'.name)) =>
        /\ result'.status = "KeyError"
        /\ TableNames(sql') = TableNames(sql)
        /\ files' = files]_vars

\* C5 as stated: search(s) yields exactly the keys whose stored value has s
\* in it as a literal substring, whatever glob characters s holds.
C5_SearchIsSubstring ==
    result.op = "search" =>
        result.keys = SelectKeys(Current,
                        LAMBDA r : r.value.cls # "NULL"
                                   /\ Contains(AsText(r.value), result.arg.s))

Earlier == {c.name : c \in {x \in created : x.file = filename /\ x.dropped}}

\* tables ever obtained on the Store's file
EverCreated == {c.name : c \in {x \in created : x.file = filename}}

\* C7 as stated: in a Store opened on a file after an earlier Store on it was
\* dropped, iterating the tables ends without error and yields every table
\* obtained through the earlier Store and none that was never created.
C7_TablesEnumerated ==
    (result.op = "tables" /\ Earlier # {}) =>
        /\ result.status = "ok"
        /\ Earlier \subseteq result.names
        /\ result.names \subseteq EverCreated

\* C8: an open resolves to the path given when a file is there and to path
\* plus the suffix when not, and connects to that file's content; no step
\* but an open of another name changes what a name resolves to; and a get
\* reads what was last set in the file it resolves to.
C8_OpenResolvesStably ==
    /\ [][(result'.op = "open" /\ result'.status = "ok") =>
            LET p == result'.sqlfilename
                fn == IF \E f \in files : f.path = p THEN p ELSE p \o Suffix
            IN /\ result'.path = fn
               /\ filename' = fn
               /\ \E f \in files' : f.path = fn /\ f.db = sql'
               /\ \A f \in files : f.path = fn => f.db = sql']_vars
    /\ [][\A p \in OpenPaths :
            (result'.op = "open" => result'.sqlfilename = p)
                => ResolvePath(p)' = ResolvePath(p)]_vars
    /\ [](result.op = "get" =>
            \A w \in wrote : Watched(w) => result.status = "ok" /\ result.value = w.v)

\* C8 witness: the file made for "db" was opened by its own name, with the
\* row an earlier Store wrote in it
C8_Witness ==
    /\ result.op = "open"
    /\ result.status = "ok"
    /\ result.sqlfilename = "db" \o Suffix
    /\ result.path = "db" \o Suffix
    /\ \E t \in sql : BagCardinality(t.rows) = 1

\* C11: an open with create false fails with FileNotFoundError when there is
\* a file neither at the path nor at the path plus the suffix, and then
\* opens no connection and makes no file; when a file is at either place it
\* succeeds on that file, the one at the path itself first.
C11_OpenWithoutCreate ==
    [][(result'.op = "open" /\ ~result'.create) =>
        LET p == result'.sqlfilename
        IN IF ~isfile(p) /\ ~isfile(p \o Suffix)
           THEN /\ result'.status = "FileNotFoundError"
                /\ ~opened'
                /\ files' = files
                /\ sql' = sql
                /\ filename' = filename
           ELSE /\ result'.status = "ok"
                /\ opened'
                /\ files' = files
                /\ filename' = (IF isfile(p) THEN p ELSE p \o Suffix)
                /\ sql' = FileDb(filename')]_vars

\* C11 witness: an open with create false has failed for a name that has no
\* file while the file of another name is there
C11_Witness ==
    /\ result.op = "open"
    /\ ~result.create
    /\ result.status = "FileNotFoundError"
    /\ result.sqlfilename = "db"
    /\ files # {}
    /\ ~opened

\* the column type the type mapper is said to give for a hint ("" for an
\* untyped column, "InvalidType" for a hint it is said to turn down)
SaidType(h) ==
    CASE h.py = "NoneType" -> ""
      [] h.py = "str" -> IF h.v \in {"NULL", "INTEGER", "REAL", "TEXT", "BLOB"}
                         THEN h.v ELSE "InvalidType"
      [] h.py = "int" \/ h = Hint("type", "int") -> "INTEGER"
      [] h.py = "float" \/ h = Hint("type", "float") -> "REAL"
      [] h.py \in {"bytes", "bytearray"}
           \/ h \in {Hint("type", "bytes"), Hint("type", "bytearray")} -> "BLOB"
      [] h = Hint("type", "str") -> "TEXT"
      [] OTHER -> "InvalidType"

\* C12 as stated: Table construction gives the key and value columns the
\* types said for its hints (zero, empty samples and the str type included)
\* and, for any other hint, fails with ValueError with no table made.
C12_TypeMapperExact ==
    [][(result'.op = "table" /\ allowedtablename(result'.name)
            /\ SqlIdentifier(result'.name) # <<>>) =>
        LET kt == SaidType(result'.key_type)
            vt == SaidType(result'.value_type)
            ident == SqlIdentifier(result'.name)
        IN IF "InvalidType" \in {kt, vt}
           THEN /\ result'.status = "ValueError"
                /\ sql' = sql
                /\ files' = files
           ELSE /\ result'.status = "ok"
                /\ ~HasTable(sql, ident) =>
                       TableOf(sql', ident) = NewTable(ident, kt, vt)]_vars

\* the keys that have a row in t
LiveKeys(t) == {r.key : r \in BagToSet(t.rows)}

\* the words table of the test: an integer key, 0: the, 1: quick, 2: fox
IsWords(t) ==
    /\ t.ktype = "INTEGER"
    /\ t.rows = SetToBag({[key |-> IntV(0), value |-> the],
                          [key |-> IntV(1), value |-> quick],
                          [key |-> IntV(2), value |-> fox]})

\* C13 as stated: list() yields every key of the table once and no other
\* key, as many keys as len(); on the words table list() is {0, 1, 2} and
\* get(1) is 'quick'.
C13_ListIsLiveKeys ==
    /\ result.op = "list" =>
          /\ BagToSet(result.keys) = LiveKeys(Current)
          /\ \A k \in BagToSet(result.keys) : CopiesIn(k, result.keys) = 1
          /\ BagCardinality(result.keys) = LenOf(sql, TName)
    /\ (result.op = "list" /\ IsWords(Current)) =>
          BagToSet(result.keys) = {IntV(0), IntV(1), IntV(2)}
    /\ (result.op = "get" /\ result.key = IntV(1) /\ IsWords(Current)) =>
          result.status = "ok" /\ result.value = quick

\* C13 amended: list() yields the key of every row, once for each row: every
\* key that is not null once, the null key as often as it has rows, and no
\* other key, as many keys as len(); on the words table list() is {0, 1, 2}
\* and get(1) is 'quick'.
C13_ListIsKeyOfEachRow ==
    /\ result.op = "list" =>
          /\ BagToSet(result.keys) = LiveKeys(Current)
          /\ \A k \in BagToSet(result.keys) :
                CopiesIn(k, result.keys) =
                    IF k.cls = "NULL"
                    THEN BagCardinality(BagFilter(Current.rows, LAMBDA r : r.key = k))
                    ELSE 1
          /\ BagCardinality(result.keys) = LenOf(sql, TName)
    /\ (result.op = "list" /\ IsWords(Current)) =>
          BagToSet(result.keys) = {IntV(0), IntV(1), IntV(2)}
    /\ (result.op = "get" /\ result.key = IntV(1) /\ IsWords(Current)) =>
          result.status = "ok" /\ result.value = quick

\* C13 witness: the words table, with its three rows, has been listed
C13_Witness ==
    /\ result.op = "list"
    /\ IsWords(Current)
    /\ BagToSet(result.keys) = {IntV(0), IntV(1), IntV(2)}
    /\ BagCardinality(result.keys) = 3

\* the rows a second connection reads that the Store no longer has: the
\* deletions of the Store that are not committed
PendingDeletes ==
    UNION {{[tname |-> t.name, row |-> r] :
                r \in {y \in BagToSet(t.rows) : ~BagIn(y, TableOf(sql, t.name).rows)}} :
           t \in {x \in CommittedDb : HasTable(sql, x.name)}}

\* C14: a successful delete(k) takes the row out of the Store's own view and
\* leaves the file as it was, in an open transaction; no step but a
\* successful set changes what a second connection reads; a successful set
\* on any table makes the file equal to the Store's view, deletions
\* included; and dropping the Store leaves the file as it was, so that a
\* fresh open reads the rows whose deletion was not committed.
C14_DeleteDoesNotCommit ==
    /\ [][(result'.op = "del" /\ result'.status = "ok") =>
            /\ RowsWithKey(TableOf(sql', TName), result'.key) = {}
            /\ RowsWithKey(TableOf(CommittedDb', TName), result'.key) # {}
            /\ CommittedDb' = CommittedDb
            /\ in_transaction']_vars
    /\ [](result.op = "get" /\ [tname |-> TName, key |-> result.key] \in deleted
            => result.status = "KeyError")
    /\ [][(opened /\ in_transaction /\ ~SetReturned) => files' = files]_vars
    /\ [][SetReturned =>
            /\ CommittedDb' = sql'
            /\ PendingDeletes' = {}
            /\ ~in_transaction']_vars
    /\ [][(result'.op = "open" /\ result'.status = "ok") =>
            /\ sql' = CommittedDb'
            /\ \A f \in files : f \in files']_vars

\* C14 witness: after a delete on one of two tables the Store no longer has
\* the row, a second connection still reads it, and the transaction is open
C14_Witness ==
    /\ result.op = "del"
    /\ result.status = "ok"
    /\ in_transaction
    /\ Cardinality(sql) = 2
    /\ PendingDeletes =
          {[tname |-> TName, row |-> r] :
              r \in RowsWithKey(TableOf(CommittedDb, TName), result.key)}
    /\ PendingDeletes # {}

\* C15: asking for a table that is there, by indexing or by construction
\* with any type hints, leaves its column types, its rows and its len() as
\* they were, and every other table and the file too; with hints the type
\* mapper takes, the call gives a handle on that table.
C15_ExistingTableKept ==
    [][(result'.op = "table" /\ \E t \in sql : t.name = SqlIdentifier(result'.name)) =>
        LET ident == SqlIdentifier(result'.name)
            old == CHOOSE t \in sql : t.name = ident
        IN /\ old \in sql'
           /\ sql' = sql
           /\ files' = files
           /\ BagCardinality((CHOOSE t \in sql' : t.name = ident).rows)
                 = BagCardinality(old.rows)
           /\ (sanitize_type(result'.key_type).status = "ok"
                 /\ sanitize_type(result'.value_type).status = "ok")
                => /\ result'.status = "ok"
                   /\ table'.bound
                   /\ SqlIdentifier(table'.name) = ident]_vars

\* C15 witness: a table with a text key, untyped values and a row in it was
\* asked for again with an integer key and value type
C15_Witness ==
    /\ result.op = "table"
    /\ result.status = "ok"
    /\ result.key_type = Hint("type", "int")
    /\ result.value_type = Hint("type", "int")
    /\ Current.ktype = "TEXT"
    /\ Current.vtype = ""
    /\ BagCardinality(Current.rows) = 1

\* the step makes a new cursor
CursorMade == result'.op = "cursor"

\* C16: a cursor never takes back a key it has yielded; with no write to the
\* table since it was made it yields keys of the rows it selected, each row
\* at most once, and all of them by the time it raises StopIteration; and
\* once it has raised StopIteration, every later next() raises StopIteration
\* and yields no key, whatever is written to the table, until the operation
\* is called again for a new cursor.
C16_CursorSinglePass ==
    /\ [][(cursor.made /\ cursor'.made /\ ~CursorMade) =>
            cursor.yielded \sqsubseteq cursor'.yielded]_vars
    /\ [](cursor.made /\ cursor.clean =>
            /\ cursor.yielded \sqsubseteq cursor.selected
            /\ cursor.stopped => cursor.yielded = cursor.selected)
    /\ [][(cursor.stopped /\ result'.op = "next") =>
            /\ result'.status = "StopIteration"
            /\ cursor'.yielded = cursor.yielded]_vars
    /\ [][(cursor.stopped /\ opened' /\ ~CursorMade) =>
            /\ cursor'.stopped
            /\ cursor'.head = <<>>
            /\ cursor'.yielded = cursor.yielded]_vars

\* C16 witness: a cursor that had raised StopIteration has raised it again
\* after a row that its SELECT would select was written to the table
C16_Witness ==
    /\ result.op = "next"
    /\ result.status = "StopIteration"
    /\ cursor.stopped
    /\ ~cursor.clean
    /\ cursor.op = "equal"
    /\ cursor.yielded # EmptyBag
    /\ table.bound
    /\ BagCardinality(SelectKeys(Current,
            LAMBDA r : Matches(cursor.op, cursor.arg, Current, r)))
          > BagCardinality(cursor.yielded)

\* the table called name in the Store's view is as it was: its rows, its
\* len() and what a get of any key finds
TableKept(name) ==
    LET old == TableOf(sql, SqlIdentifier(name))
        new == TableOf(sql', SqlIdentifier(name))
    IN /\ HasTable(sql', SqlIdentifier(name))
       /\ new.rows = old.rows
       /\ BagCardinality(new.rows) = BagCardinality(old.rows)
       /\ \A k \in {NullV, IntV(1)} : RowsWithKey(new, k) = RowsWithKey(old, k)

\* a set or a delete through the handle has returned or raised
WriteDone == table.bound /\ result'.op \in {"set", "del"}

\* C17 as stated: a set or delete through a handle, whether it succeeds or
\* fails, leaves the table of every other name as it was, and the tables of
\* the Store too.
C17_OtherNamesKept ==
    [][WriteDone =>
        /\ TableNames(sql') = TableNames(sql)
        /\ \A B \in IsoNames :
              (B # table.name /\ HasTable(sql, SqlIdentifier(B))) => TableKept(B)]_vars

\* C17 amended: the same for every name that the engine resolves to another
\* table than the handle's; names that differ only in letter case or in
\* blanks around them are names of one table.
C17_OtherTablesKept ==
    [][WriteDone =>
        /\ TableNames(sql') = TableNames(sql)
        /\ \A B \in IsoNames :
              (/\ HasTable(sql, SqlIdentifier(B))
               /\ TableOf(sql, SqlIdentifier(B)).name # Current.name) => TableKept(B)
        /\ \A t \in sql : t.name # Current.name => t \in sql']_vars

\* C17 witness: a delete through the handle of one table has succeeded while
\* the other table holds a row
C17_Witness ==
    /\ result.op = "del"
    /\ result.status = "ok"
    /\ Cardinality(sql) = 2
    /\ LenOf(sql, TName) = 0
    /\ \E t \in sql : t.name # Current.name /\ BagCardinality(t.rows) = 1

====
